---------------------------- MODULE Spec2Model ----------------------------
(***************************************************************************)
(* Hebrew activity generator: the generation-and-validation pipeline.      *)
(*                                                                         *)
(*   backend/services/prompt_manager.py     PromptManager (config cache,   *)
(*                                          prompt rendering)              *)
(*   backend/models/config_models.py        PromptConfig validation        *)
(*   backend/services/content_generator.py  ContentGenerator               *)
(*                                          .generate_activity and its     *)
(*                                          local extract_json             *)
(*   backend/models/content_models.py       ContentModel validation        *)
(*                                                                         *)
(* Text is a sequence of one-character strings.  Where a whole run of      *)
(* characters is irrelevant to the scan it is abbreviated by one token     *)
(* (a payload token stands for the serialised members of one activity      *)
(* document; it holds no brace and no quote).                              *)
(***************************************************************************)
EXTENDS Integers, Sequences, FiniteSets, TLC

VARIABLES
    source,         \* config source: <<lower(level), variant>> -> document
    cache,          \* PromptManager._config_cache: cache_key -> PromptConfig
    returned,       \* history: pair -> config its last successful get_config
                    \*          returned since the last clear_cache
    last,           \* history: the last PromptManager call and what it did
    pc,             \* generate_activity: the stage about to run
    request,        \* generate_activity: the GenerateActivityRequest
    stages,         \* history: the stages run in this call, with their outcome
    config,         \* generate_activity local: config
    system_prompt,  \* generate_activity local: system_prompt
    raw_response,   \* generate_activity local: raw_response
    clean_json,     \* generate_activity local: clean_json
    model_calls,    \* history: the arguments of each generate_content call
                    \*          made in this generate_activity call
    result,         \* what generate_activity returned or raised
    req_json,       \* main.generate_activity: the JSON body received
    document,       \* the activity document the payload token
                    \* "<members:document>" abbreviates
    reparsed,       \* what constructing a ContentModel from the serialised
                    \* ContentModel of result ended in
    threads         \* concurrent get_config calls: thread -> its position
                    \* and locals

vars == <<source, cache, returned, last, pc, request, stages, config,
          system_prompt, raw_response, clean_json, model_calls, result,
          req_json, document, reparsed, threads>>

pm_vars == <<source, cache, returned, last, threads>>
content_vars == <<document, reparsed>>
call_vars == <<pc, request, stages, config, system_prompt, raw_response,
               clean_json, model_calls, result, req_json, content_vars>>

None == "None"
NoDocument == [missing |-> TRUE]
NoConfig == [missing |-> TRUE]
NoGenerationConfig == [missing |-> TRUE]

\* An optional argument: left at None, or given.
Unset == [given |-> FALSE]
Given(v) == [given |-> TRUE, value |-> v]

----------------------------------------------------------------------------
(* Bounds *)

\* Raw model texts are enumerated exhaustively up to this length.
MaxLen == 5

\* Question ids of three-question documents are enumerated from 0 up to this.
MaxQuestionId == 4

\* The number of threads that call get_config at the same time.
NumThreads == 2

----------------------------------------------------------------------------
(* Characters and texts *)

\* The characters of exhaustively enumerated texts.
Char == {"{", "}", "\"", "a", " "}

\* str.strip() with no argument removes these (among the model's characters).
Whitespace == {" ", "\n", "\t"}

\* The backtick character, which a TLA+ string cannot hold.
Backtick == "<backtick>"

Digit == {"0", "1", "2", "3", "4", "5", "6", "7", "8", "9"}

\* Payload tokens: the members of one activity document, serialised.
PayloadTokens == {"<members:dog>", "<members:dog-unpointed>",
                  "<members:ids-1-2-4>", "<members:document>"}

AllTexts == UNION {[1..n -> Char] : n \in 0..MaxLen}

\* the fenced object of the extraction scenario
FencedText ==
    <<Backtick, Backtick, Backtick, "j", "s", "o", "n", "\n",
      "{", "\"", "a", "\"", ":", "1", "}", "\n", Backtick, Backtick, Backtick>>

SampleTexts ==
    { FencedText,
      \* a nested object between prose
      <<"a", " ", "{", "\"", "a", "\"", ":", "{", "\"", "a", "\"", ":", "1", "}",
        "}", " ", "a">>,
      \* an object whose string value is an opening brace
      <<"{", "\"", "a", "\"", ":", "\"", "{", "\"", "}">>,
      \* an object whose string value is a closing brace
      <<"{", "\"", "a", "\"", ":", "\"", "}", "\"", "}">>,
      \* prose quoting an opening brace, then an object
      <<"a", " ", "\"", "{", "\"", " ", "{", "\"", "a", "\"", ":", "1", "}">>,
      \* an object, then prose quoting a closing brace
      <<"{", "\"", "a", "\"", ":", "1", "}", " ", "\"", "}", "\"">>,
      \* an object of two members
      <<"{", "\"", "a", "\"", ":", "1", ",", "\"", "a", "\"", ":", "{", "}",
        "}">>,
      \* an unterminated nested object
      <<"{", "\"", "a", "\"", ":", "{", "\"", "a", "\"", ":", "1", "}">>,
      \* prose without any brace, inside whitespace
      <<"\n", " ", "a", "a", " ", "1", " ", "\n">>,
      \* a bare number
      <<"1", "0">>,
      \* a bare string
      <<"\"", "a", "\"">> }

\* What the model client hands back in a generate_activity call.
ModelOutputs ==
    { <<"\n", "{", "<members:dog>", "}", "\n">>,
      <<Backtick, Backtick, Backtick, "j", "s", "o", "n", "\n", "{", "<members:dog>", "}",
        "\n", Backtick, Backtick, Backtick>>,
      <<"{", "<members:dog-unpointed>", "}">>,
      <<"{", "<members:ids-1-2-4>", "}">>,
      <<"{", "\"", "a", "\"", ":", "1", "}">>,
      <<"{", "\"", "a", "\"", ":", "\"", "{", "\"", "}">>,
      <<"{", "<members:dog>">>,
      <<"{", "<members:dog>", ",", "\"", "a", "\"", ":", "\"", "{", "\"",
        "}">>,
      <<"a", "a">>,
      <<"1", "0">> }

Texts == AllTexts \cup SampleTexts \cup ModelOutputs

----------------------------------------------------------------------------
(* str.strip, str.find and slicing, as Python defines them *)

RECURSIVE lstrip(_)
lstrip(s) ==
    IF s # <<>> /\ Head(s) \in Whitespace THEN lstrip(Tail(s)) ELSE s

RECURSIVE rstrip(_)
rstrip(s) ==
    IF s # <<>> /\ s[Len(s)] \in Whitespace
    THEN rstrip(SubSeq(s, 1, Len(s) - 1))
    ELSE s

strip(s) == rstrip(lstrip(s))

\* s.find(c): the 0-based index of the first c, or -1.
find(s, c) ==
    IF \E i \in 1..Len(s) : s[i] = c
    THEN (CHOOSE i \in 1..Len(s) :
              s[i] = c /\ \A j \in 1..(i - 1) : s[j] # c) - 1
    ELSE -1

\* s[a:b] with 0-based a, exclusive b.
Slice(s, a, b) == SubSeq(s, a + 1, b)

----------------------------------------------------------------------------
(* extract_json, content_generator.py:71-86 *)

\* Returns at the first closing brace, whatever the nesting.
RECURSIVE scan_first_close(_, _, _, _)
scan_first_close(res_text, start_idx, i, stack) ==
    IF i >= Len(res_text) THEN Slice(res_text, start_idx, Len(res_text))
    ELSE IF res_text[i + 1] = "}" THEN Slice(res_text, start_idx, i + 1)
    ELSE scan_first_close(res_text, start_idx, i + 1, stack)

\* The for loop over range(start_idx, len(res_text)); i is the loop index.
RECURSIVE scan(_, _, _, _)
scan(res_text, start_idx, i, stack) ==
    IF i >= Len(res_text) THEN Slice(res_text, start_idx, Len(res_text))
    ELSE IF res_text[i + 1] = "{"
    THEN scan(res_text, start_idx, i + 1, Append(stack, "{"))
    ELSE IF res_text[i + 1] = "}" /\ stack # <<>>
    THEN LET popped == SubSeq(stack, 1, Len(stack) - 1)
         IN  IF popped = <<>>
             THEN Slice(res_text, start_idx, i + 1)
             ELSE scan(res_text, start_idx, i + 1, popped)
    ELSE scan(res_text, start_idx, i + 1, stack)

\* Forgets to strip the text when it holds no brace.
extract_json_unstripped(raw) ==
    LET res_text == strip(raw)
        start_idx == find(res_text, "{")
    IN  IF start_idx = -1 THEN raw
        ELSE scan(res_text, start_idx, start_idx, <<>>)

extract_json(raw) ==
    LET res_text == strip(raw)
        start_idx == find(res_text, "{")
    IN  IF start_idx = -1 THEN res_text
        ELSE scan(res_text, start_idx, start_idx, <<>>)

----------------------------------------------------------------------------
(* json.loads, content_generator.py:91: a recursive-descent reading of the  *)
(* candidate over the model's characters.  A position is a 1-based index;   *)
(* a scanner returns the position after what it read, or 0 where Python     *)
(* raises JSONDecodeError.  The model's characters spell no escape          *)
(* sequence and no true, false or null.                                     *)

JsonWhitespace == {" ", "\n", "\t"}

RECURSIVE skip_ws(_, _)
skip_ws(s, i) ==
    IF i <= Len(s) /\ s[i] \in JsonWhitespace THEN skip_ws(s, i + 1) ELSE i

\* i is the position after the opening quote.
RECURSIVE scan_string(_, _)
scan_string(s, i) ==
    IF i > Len(s) THEN 0
    ELSE IF s[i] = "\"" THEN i + 1
    ELSE IF s[i] \in {"\n", "\t"} THEN 0
    ELSE scan_string(s, i + 1)

RECURSIVE scan_digits(_, _)
scan_digits(s, i) ==
    IF i <= Len(s) /\ s[i] \in Digit THEN scan_digits(s, i + 1) ELSE i

scan_number(s, i) == IF s[i] = "0" THEN i + 1 ELSE scan_digits(s, i)

RECURSIVE scan_value(_, _)
RECURSIVE scan_members(_, _)

\* i is the position of the member's first character.
scan_member(s, i) ==
    IF i > Len(s) THEN 0
    ELSE IF s[i] \in PayloadTokens THEN i + 1
    ELSE IF s[i] # "\"" THEN 0
    ELSE LET k == scan_string(s, i + 1)
             c == skip_ws(s, k)
         IN  IF k = 0 \/ c > Len(s) THEN 0
             ELSE IF s[c] # ":" THEN 0
             ELSE scan_value(s, skip_ws(s, c + 1))

scan_members(s, i) ==
    LET k == scan_member(s, i)
        j == skip_ws(s, k)
    IN  IF k = 0 \/ j > Len(s) THEN 0
        ELSE IF s[j] = "}" THEN j + 1
        ELSE IF s[j] = "," THEN scan_members(s, skip_ws(s, j + 1))
        ELSE 0

\* i is the position after the opening brace.
scan_object(s, i) ==
    LET j == skip_ws(s, i)
    IN  IF j > Len(s) THEN 0
        ELSE IF s[j] = "}" THEN j + 1
        ELSE scan_members(s, j)

scan_value(s, i) ==
    IF i > Len(s) THEN 0
    ELSE IF s[i] = "{" THEN scan_object(s, i + 1)
    ELSE IF s[i] = "\"" THEN scan_string(s, i + 1)
    ELSE IF s[i] \in Digit THEN scan_number(s, i)
    ELSE 0

\* Whether position k of s lies inside a string literal: an odd number of
\* quotes precedes it.
InString(s, k) == Cardinality({m \in 1..(k - 1) : s[m] = "\""}) % 2 = 1

\* The nesting depth of position k: structural opening braces before it
\* minus structural closing braces before it.
Nesting(s, k) ==
    Cardinality({m \in 1..(k - 1) : s[m] = "{" /\ ~InString(s, m)})
    - Cardinality({m \in 1..(k - 1) : s[m] = "}" /\ ~InString(s, m)})

\* The members a parsed object holds at its top level: the last payload
\* token there (a later key replaces an earlier one), or None.
TopPayload(s) ==
    LET at == {k \in 1..Len(s) : s[k] \in PayloadTokens /\ Nesting(s, k) = 1}
    IN  IF at = {} THEN None
        ELSE s[CHOOSE k \in at : \A m \in at : m <= k]

JSONDecodeError == [ok |-> FALSE, kind |-> None, members |-> None]

json_loads(text) ==
    LET i == skip_ws(text, 1)
        j == scan_value(text, i)
    IN  IF j = 0 \/ skip_ws(text, j) # Len(text) + 1 THEN JSONDecodeError
        ELSE IF text[i] = "{"
        THEN [ok |-> TRUE, kind |-> "dict", members |-> TopPayload(text)]
        ELSE [ok |-> TRUE, kind |-> "scalar", members |-> None]

----------------------------------------------------------------------------
(* ContentModel, content_models.py:71-143.  A document is described by the  *)
(* facts its validators read: lengths, character counts, and per question   *)
(* its id and cognitive level.  Vocabulary items and the questions' other   *)
(* fields are within their bounds in every document of the model.           *)

BloomLevel == {"Remembering", "Understanding", "Applying", "Analyzing",
               "Evaluating", "Creating"}

\* The language of the pattern ^[ABC][12]$.
LevelPattern == {"A1", "A2", "B1", "B2", "C1", "C2"}

\* The activity of test_content_generator.py, with vowel points.
DogActivity ==
    [title_hebrew_len |-> 8,
     cefr_level |-> "A1",
     text_content_len |-> 176,
     text_content_pad |-> 0,
     hebrew_chars |-> 149,
     niqqud_chars |-> 65,
     vocabulary_list_len |-> 4,
     questions |-> << [id |-> 1, cognitive_level |-> "Remembering"],
                      [id |-> 2, cognitive_level |-> "Remembering"],
                      [id |-> 3, cognitive_level |-> "Understanding"] >>]

Members(token) ==
    CASE token = "<members:dog>" -> DogActivity
      [] token = "<members:dog-unpointed>" ->
            [DogActivity EXCEPT !.text_content_len = 111,
                                !.hebrew_chars = 84,
                                !.niqqud_chars = 0]
      [] token = "<members:ids-1-2-4>" ->
            [DogActivity EXCEPT !.questions[3].id = 4]
      [] token = "<members:document>" -> document

RECURSIVE insert(_, _)
insert(x, s) ==
    IF s = <<>> \/ x <= Head(s) THEN <<x>> \o s
    ELSE <<Head(s)>> \o insert(x, Tail(s))

RECURSIVE sorted(_)
sorted(s) == IF s = <<>> THEN <<>> ELSE insert(Head(s), sorted(Tail(s)))

\* Requires vowel points of level A1 only.
validate_hebrew_content_a1_only(d) ==
    /\ d.hebrew_chars > 0
    /\ (d.cefr_level = "A1" => d.niqqud_chars >= 10)

\* content_models.py:103-120
validate_hebrew_content(d) ==
    /\ d.hebrew_chars > 0
    /\ (d.cefr_level \in {"A1", "A2"} => d.niqqud_chars >= 10)

\* Rejects only a list whose questions are all Remembering.
validate_bloom_distribution_remembering(questions) ==
    ~(/\ \A i \in 1..Len(questions) :
             questions[i].cognitive_level = "Remembering"
      /\ Len(questions) > 2)

\* content_models.py:122-132
validate_bloom_distribution(questions) ==
    LET levels == [i \in 1..Len(questions) |-> questions[i].cognitive_level]
    IN  ~(Cardinality({levels[i] : i \in 1..Len(levels)}) = 1
          /\ Len(levels) > 2)

\* Checks that the ids differ from each other, not that they are 1..N.
model_post_init_distinct(d) ==
    \A i, j \in 1..Len(d.questions) :
        i # j => d.questions[i].id # d.questions[j].id

\* content_models.py:134-143
model_post_init(d) ==
    LET expected_ids == [i \in 1..Len(d.questions) |-> i]
        actual_ids == sorted([i \in 1..Len(d.questions) |-> d.questions[i].id])
    IN  actual_ids = expected_ids

\* One line of a pydantic ValidationError.
ErrorAt(loc, type) == [loc |-> loc, type |-> type]

\* The declared bounds of the fields, content_models.py:73-101 and 34-60.
\* text_content_len counts the whole string, text_content_pad the whitespace
\* at its two ends.
FieldErrors(d) ==
    (IF d.title_hebrew_len < 3
     THEN {ErrorAt("title_hebrew", "string_too_short")} ELSE {})
    \cup (IF d.title_hebrew_len > 100
          THEN {ErrorAt("title_hebrew", "string_too_long")} ELSE {})
    \cup (IF d.cefr_level \notin LevelPattern
          THEN {ErrorAt("cefr_level", "string_pattern_mismatch")} ELSE {})
    \cup (IF d.text_content_len < 50
          THEN {ErrorAt("text_content", "string_too_short")} ELSE {})
    \cup (IF d.text_content_len > 1000
          THEN {ErrorAt("text_content", "string_too_long")} ELSE {})
    \cup (IF d.vocabulary_list_len < 3
          THEN {ErrorAt("vocabulary_list", "too_short")} ELSE {})
    \cup (IF d.vocabulary_list_len > 15
          THEN {ErrorAt("vocabulary_list", "too_long")} ELSE {})
    \cup (IF Len(d.questions) < 3
          THEN {ErrorAt("questions", "too_short")} ELSE {})
    \cup (IF Len(d.questions) > 10
          THEN {ErrorAt("questions", "too_long")} ELSE {})
    \cup (IF \E i \in 1..Len(d.questions) : d.questions[i].id < 1
          THEN {ErrorAt("questions.id", "greater_than_equal")} ELSE {})
    \cup (IF \E i \in 1..Len(d.questions) :
                d.questions[i].cognitive_level \notin BloomLevel
          THEN {ErrorAt("questions.cognitive_level", "enum")} ELSE {})

Failed(errors, field) == \E e \in errors : e.loc = field

\* The field validators, each run when its own field passed its bounds;
\* validate_hebrew_content reads cefr_level from the fields validated before
\* it (info.data), where a rejected cefr_level is absent.
ValidatorErrors(d) ==
    LET errors == FieldErrors(d)
        seen == IF Failed(errors, "cefr_level") THEN None ELSE d.cefr_level
    IN  (IF /\ ~Failed(errors, "text_content")
            /\ ~validate_hebrew_content([d EXCEPT !.cefr_level = seen])
         THEN {ErrorAt("text_content", "value_error")} ELSE {})
        \cup (IF /\ \A e \in errors :
                       e.loc \notin {"questions", "questions.id",
                                     "questions.cognitive_level"}
                 /\ ~validate_bloom_distribution(d.questions)
              THEN {ErrorAt("questions", "value_error")} ELSE {})

\* The value of the text_content field: validate_hebrew_content returns
\* v.strip(), content_models.py:120.
Stripped(d) ==
    [d EXCEPT !.text_content_len = d.text_content_len - d.text_content_pad,
              !.text_content_pad = 0]

\* ContentModel(**content_data), content_models.py:71-143: the exception
\* raised (None when the model is built), its lines, and the model.
\* model_post_init runs once every field is valid; pydantic reports its
\* ValueError as a line of the ValidationError.
ContentModel(d) ==
    LET errors == FieldErrors(d) \cup ValidatorErrors(d)
    IN  IF errors # {}
        THEN [raised |-> "ValidationError", errors |-> errors,
              value |-> NoDocument]
        ELSE IF ~model_post_init(d)
        THEN [raised |-> "ValidationError",
              errors |-> {ErrorAt("", "value_error")}, value |-> NoDocument]
        ELSE [raised |-> None, errors |-> {}, value |-> Stripped(d)]

\* ContentModel.model_dump: the members a ContentModel serialises to.
model_dump(m) ==
    [title_hebrew_len |-> m.title_hebrew_len,
     cefr_level |-> m.cefr_level,
     text_content_len |-> m.text_content_len,
     text_content_pad |-> m.text_content_pad,
     hebrew_chars |-> m.hebrew_chars,
     niqqud_chars |-> m.niqqud_chars,
     vocabulary_list_len |-> m.vocabulary_list_len,
     questions |-> [i \in 1..Len(m.questions) |->
                      [id |-> m.questions[i].id,
                       cognitive_level |-> m.questions[i].cognitive_level]]]

\* Activity documents a model may write.  Three questions with every id
\* list over 0..MaxQuestionId; four questions in and out of order, with a
\* gap, with a duplicate.
QuestionsWith(ids, levels) ==
    [i \in 1..Len(ids) |-> [id |-> ids[i], cognitive_level |-> levels[i]]]

IdLists ==
    [1..3 -> 0..MaxQuestionId]
        \cup {<<1, 2, 3, 4>>, <<4, 2, 1, 3>>, <<1, 2, 2, 4>>, <<1, 2, 3, 5>>,
              <<2, 3, 4, 5>>}

MixedLevels ==
    <<"Remembering", "Remembering", "Understanding", "Applying">>

DocumentsByIds ==
    { [DogActivity EXCEPT !.questions =
           QuestionsWith(ids, SubSeq(MixedLevels, 1, Len(ids)))] :
        ids \in IdLists }

\* The other fields at and around their bounds, the ids being 1, 2, 3.
DocumentsByFields ==
    { [title_hebrew_len |-> title,
       cefr_level |-> level,
       text_content_len |-> text[1],
       text_content_pad |-> text[2],
       hebrew_chars |-> marks[1],
       niqqud_chars |-> marks[2],
       vocabulary_list_len |-> 4,
       questions |-> QuestionsWith(<<1, 2, 3>>, levels)] :
        title \in {2, 8},
        level \in {"A1", "A2", "B1", "a1"},
        text \in {<<49, 0>>, <<50, 0>>, <<50, 2>>, <<52, 2>>, <<176, 0>>,
                  <<1001, 0>>},
        marks \in {<<0, 0>>, <<40, 0>>, <<40, 9>>, <<40, 10>>, <<45, 30>>},
        levels \in {SubSeq(MixedLevels, 1, 3),
                    <<"Remembering", "Remembering", "Remembering">>} }

\* Question lists below, at and above the bounds of their length, with one
\* cognitive level for every question or with two levels, the ids being 1..N.
QuestionCounts == {2, 3, 10, 11}

DocumentsByQuestions ==
    { [DogActivity EXCEPT !.questions =
           [i \in 1..n |-> [id |-> i,
                            cognitive_level |->
                                IF i = 1 THEN levels[1] ELSE levels[2]]]] :
        n \in QuestionCounts,
        levels \in {<<"Remembering", "Remembering">>,
                    <<"Understanding", "Understanding">>,
                    <<"Remembering", "Understanding">>} }

ContentDocuments ==
    DocumentsByIds \cup DocumentsByFields \cup DocumentsByQuestions

----------------------------------------------------------------------------
(* PromptConfig, config_models.py:108-132.  A template is the sequence of   *)
(* its segments: literal text, and each Jinja construct as one segment.     *)

TopicPlaceholders == {"{{ topic }}", "{{topic}}"}

RECURSIVE TextLen(_)
TextLen(segments) ==
    IF segments = <<>> THEN 0
    ELSE Len(Head(segments)) + TextLen(Tail(segments))

\* The pattern ^\d+\.\d+\.\d+$ on a sequence of characters.
MatchesVersion(v) ==
    \E i, j \in 1..Len(v) :
        /\ 1 < i /\ i + 1 < j /\ j < Len(v)
        /\ v[i] = "." /\ v[j] = "."
        /\ \A k \in (1..Len(v)) \ {i, j} : v[k] \in Digit

\* config_models.py:36-53
MorphologicalConstraintsValid(m) ==
    /\ Len(m.allowed_tenses) >= 1
    /\ \A i \in 1..Len(m.allowed_tenses) : m.allowed_tenses[i] \in
          {"PRESENT", "PAST", "FUTURE", "IMPERATIVE", "INFINITIVE"}
    /\ Len(m.allowed_binyanim) >= 1
    /\ \A i \in 1..Len(m.allowed_binyanim) : m.allowed_binyanim[i] \in
          {"PAAL", "NIFAL", "PIEL", "PUAL", "HIFIL", "HUFAL", "HITPAEL"}
    /\ m.max_sentence_length >= 5 /\ m.max_sentence_length <= 30

\* config_models.py:83-88 (temperature in hundredths)
GenerationConfigValid(g) ==
    /\ g.temperature >= 0 /\ g.temperature <= 200
    /\ g.max_output_tokens >= 100 /\ g.max_output_tokens <= 8192

\* Accepts a template without looking for the placeholder.
validate_template_has_topic_skipped(v) == TRUE

\* config_models.py:124-132
validate_template_has_topic(v) ==
    ~(/\ \A i \in 1..Len(v) : v[i] # "{{ topic }}"
      /\ \A i \in 1..Len(v) : v[i] # "{{topic}}")

\* Whether the PromptConfig constructor accepts the document d.
PromptConfigAccepts(d) ==
    /\ d.level \in LevelPattern
    /\ MatchesVersion(d.version)
    /\ MorphologicalConstraintsValid(d.morphological_constraints)
    /\ TextLen(d.system_prompt_template) >= 50
    /\ validate_template_has_topic(d.system_prompt_template)
    /\ (d.generation_config # NoGenerationConfig
           => GenerationConfigValid(d.generation_config))

----------------------------------------------------------------------------
(* Config documents *)

\* MOCK_A1_CONFIG of test_prompt_manager.py.
TestDocument ==
    [level |-> "A1",
     version |-> <<"1", ".", "0", ".", "0">>,
     morphological_constraints |->
        [allowed_tenses |-> <<"PRESENT">>,
         allowed_binyanim |-> <<"PAAL">>,
         max_sentence_length |-> 10,
         niqqud_required |-> TRUE],
     system_prompt_template |->
        <<"Create a ", "{{ topic }}", " activity for level ", "{{ level }}",
          ".">>,
     generation_config |-> NoGenerationConfig]

\* A second valid document, with generation overrides.
OverridesDocument ==
    [TestDocument EXCEPT
        !.level = "B1",
        !.version = <<"2", ".", "1", "0", ".", "3">>,
        !.system_prompt_template =
            <<"Write a Hebrew reading activity about ", "{{topic}}",
              " for ", "{{ audience }}", " at level ", "{{ level }}", ".">>,
        !.generation_config = [temperature |-> 30, max_output_tokens |-> 2048]]

\* No topic placeholder.
NoTopicDocument ==
    [TestDocument EXCEPT
        !.system_prompt_template =
            <<"Create a Hebrew reading activity for learners at level ",
              "{{ level }}", ".">>]

\* A placeholder the validator's two spellings do not cover.
WideTopicDocument ==
    [TestDocument EXCEPT
        !.system_prompt_template =
            <<"Create a Hebrew reading activity about ", "{{  topic  }}",
              " for level ", "{{ level }}", ".">>]

\* The placeholder sits inside a template comment.
CommentedTopicDocument ==
    [TestDocument EXCEPT
        !.system_prompt_template =
            <<"{#", "{{ topic }}", "#}",
              "Create a Hebrew reading activity for learners at level ",
              "{{ level }}", ".">>]

\* A comment that is never closed.
OpenCommentDocument ==
    [TestDocument EXCEPT
        !.system_prompt_template =
            <<"Create a Hebrew reading activity about ", "{{ topic }}",
              " for level ", "{{ level }}", ".", "{#", " to do">>]

\* Shorter than 50 characters.
ShortDocument ==
    [TestDocument EXCEPT
        !.system_prompt_template = <<"Write about ", "{{ topic }}", ".">>]

\* A version that is no semantic version, a level outside the pattern.
BadFieldsDocument ==
    [TestDocument EXCEPT !.version = <<"1", ".", "0">>, !.level = "D1"]

----------------------------------------------------------------------------
(* jinja2: Template(source), then render with the context,                 *)
(* prompt_manager.py:146-149                                                *)

\* The variable a segment interpolates, or None for any other segment.
VariableOf(segment) ==
    CASE segment \in {"{{ topic }}", "{{topic}}", "{{  topic  }}"} -> "topic"
      [] segment = "{{ level }}" -> "level"
      [] segment = "{{ audience }}" -> "audience"
      [] OTHER -> None

\* Template(): a comment that is not closed is a TemplateSyntaxError.
RECURSIVE TemplateCompiles(_, _)
TemplateCompiles(segments, in_comment) ==
    IF segments = <<>> THEN ~in_comment
    ELSE IF in_comment
    THEN TemplateCompiles(Tail(segments), Head(segments) # "#}")
    ELSE TemplateCompiles(Tail(segments), Head(segments) = "{#")

\* render(): literal text as it stands, a variable replaced by its value in
\* the context (nothing when undefined), a comment dropped.
RECURSIVE render(_, _, _)
render(segments, context, in_comment) ==
    IF segments = <<>> THEN <<>>
    ELSE LET seg == Head(segments)
             rest == Tail(segments)
         IN  IF in_comment THEN render(rest, context, seg # "#}")
             ELSE IF seg = "{#" THEN render(rest, context, TRUE)
             ELSE IF VariableOf(seg) = None
             THEN <<seg>> \o render(rest, context, FALSE)
             ELSE IF VariableOf(seg) \in DOMAIN context
             THEN <<context[VariableOf(seg)]>> \o render(rest, context, FALSE)
             ELSE render(rest, context, FALSE)

RECURSIVE Join(_)
Join(parts) == IF parts = <<>> THEN "" ELSE Head(parts) \o Join(Tail(parts))

----------------------------------------------------------------------------
(* PromptManager, prompt_manager.py:64-196 *)

\* str.lower() on the level names of the model.
lower(level) ==
    CASE level = "A1" -> "a1"
      [] level = "A2" -> "a2"
      [] level = "B1" -> "b1"
      [] level = "B2" -> "b2"
      [] level = "A1_dyslexia" -> "a1_dyslexia"

\* FileSystemConfigSource.load_config, prompt_manager.py:29-42: the document
\* at {base}/{level.lower()}/{variant}.json, NoDocument when no file is there.
load_config(src, level, variant) == src[<<lower(level), variant>>]

\* prompt_manager.py:90
cache_key(level, variant) == level \o "_" \o variant

Put(cch, key, value) ==
    [k \in DOMAIN cch \cup {key} |-> IF k = key THEN value ELSE cch[k]]

GetConfigResult(raised, value, cch, read, validated) ==
    [raised |-> raised, value |-> value, cache |-> cch, read |-> read,
     validated |-> validated]

\* Stores the document before it is validated.
get_config_store_first(src, cch, level, variant, use_cache) ==
    LET key == cache_key(level, variant)
        config_dict == load_config(src, level, variant)
    IN  IF use_cache /\ key \in DOMAIN cch
        THEN GetConfigResult(None, cch[key], cch, FALSE, FALSE)
        ELSE IF config_dict = NoDocument
        THEN GetConfigResult("FileNotFoundError", NoConfig, cch, TRUE, FALSE)
        ELSE IF ~PromptConfigAccepts(config_dict)
        THEN GetConfigResult("ValueError: Invalid prompt configuration",
                             NoConfig, Put(cch, key, config_dict), TRUE, TRUE)
        ELSE GetConfigResult(None, config_dict, Put(cch, key, config_dict),
                             TRUE, TRUE)

\* PromptManager.get_config, prompt_manager.py:73-116.  The result names the
\* exception raised (None on return), the config returned, the cache after
\* the call, and whether the source was read and a PromptConfig constructed.
get_config(src, cch, level, variant, use_cache) ==
    LET key == cache_key(level, variant)
        config_dict == load_config(src, level, variant)
    IN  IF use_cache /\ key \in DOMAIN cch
        THEN GetConfigResult(None, cch[key], cch, FALSE, FALSE)
        ELSE IF config_dict = NoDocument
        THEN GetConfigResult("FileNotFoundError", NoConfig, cch, TRUE, FALSE)
        ELSE IF ~PromptConfigAccepts(config_dict)
        THEN GetConfigResult("ValueError: Invalid prompt configuration",
                             NoConfig, cch, TRUE, TRUE)
        ELSE GetConfigResult(None, config_dict, Put(cch, key, config_dict),
                             TRUE, TRUE)

RenderResult(raised, prompt, g, template_built) ==
    [raised |-> raised, prompt |-> prompt, value |-> g.value,
     cache |-> g.cache, read |-> g.read, validated |-> g.validated,
     template_built |-> template_built]

\* PromptManager.render_system_prompt, prompt_manager.py:118-155.
render_system_prompt(src, cch, level, topic, variant) ==
    LET g == get_config(src, cch, level, variant, TRUE)
        context == [topic |-> topic, level |-> level]
    IN  IF g.raised # None THEN RenderResult(g.raised, <<>>, g, FALSE)
        ELSE IF ~TemplateCompiles(g.value.system_prompt_template, FALSE)
        THEN RenderResult("ValueError: Failed to render prompt template",
                          <<>>, g, TRUE)
        ELSE RenderResult(None,
                          render(g.value.system_prompt_template, context, FALSE),
                          g, TRUE)

----------------------------------------------------------------------------
(* Inputs *)

Topics == {"Soccer", "Dog"}

\* Levels a GenerateActivityRequest accepts, request_models.py:45-54.
RequestLevels == {"A1", "B1"}

\* Level names as the PromptManager documents them (CEFR codes).
CacheLevels == {"A1", "B1"}
CacheVariants == {"default", "dyslexia_optimized"}

\* Level and variant names that are plain strings.
KeyLevels == {"A1", "A1_dyslexia"}
KeyVariants == {"optimized", "dyslexia_optimized"}

SourceKeys(levels, variants) == {<<lower(l), v>> : l \in levels, v \in variants}

AllSourceKeys ==
    SourceKeys(CacheLevels \cup KeyLevels, CacheVariants \cup KeyVariants)
        \cup SourceKeys({"A2", "B2"}, {"default"})

\* The sources that hold, at each of keys, one of documents.
SourcesOver(keys, documents) ==
    { [k \in AllSourceKeys |-> IF k \in keys THEN f[k] ELSE NoDocument] :
        f \in [keys -> documents] }

----------------------------------------------------------------------------
(* PromptManager calls *)

NoCall ==
    [op |-> None, level |-> None, variant |-> None, topic |-> None,
     raised |-> None, value |-> NoConfig, prompt |-> <<>>, read |-> FALSE,
     validated |-> FALSE, template_built |-> FALSE, loaded_before |-> FALSE,
     memo |-> NoConfig, cache_before |-> <<>>]

\* What a call did (r), and what the manager held when it was made.
CallRecord(op, level, variant, topic, r) ==
    [op |-> op, level |-> level, variant |-> variant, topic |-> topic,
     raised |-> r.raised, value |-> r.value, prompt |-> r.prompt,
     read |-> r.read, validated |-> r.validated,
     template_built |-> r.template_built,
     loaded_before |-> <<level, variant>> \in DOMAIN returned,
     memo |-> IF <<level, variant>> \in DOMAIN returned
              THEN returned[<<level, variant>>] ELSE NoConfig,
     cache_before |-> cache]

\* The effect of a call on the manager, and the record of it.
ManagerCall(op, level, variant, topic, r) ==
    /\ cache' = r.cache
    /\ returned' = IF r.value # NoConfig
                   THEN Put(returned, <<level, variant>>, r.value)
                   ELSE returned
    /\ last' = CallRecord(op, level, variant, topic, r)
    /\ UNCHANGED <<source, threads>>

GetConfig(level, variant) ==
    /\ ManagerCall("get_config", level, variant, None,
                   RenderResult(
                       get_config(source, cache, level, variant, TRUE).raised,
                       <<>>,
                       get_config(source, cache, level, variant, TRUE),
                       FALSE))
    /\ UNCHANGED call_vars

RenderSystemPrompt(level, topic, variant) ==
    /\ ManagerCall("render_system_prompt", level, variant, topic,
                   render_system_prompt(source, cache, level, topic, variant))
    /\ UNCHANGED call_vars

\* PromptManager.clear_cache, prompt_manager.py:193-196
ClearCache ==
    /\ cache' = <<>>
    /\ returned' = <<>>
    /\ last' = [NoCall EXCEPT !.op = "clear_cache", !.cache_before = cache]
    /\ UNCHANGED <<source, threads, call_vars>>

----------------------------------------------------------------------------
(* GenerateActivityRequest, request_models.py:6-54.  A topic is a string;   *)
(* TopicChars gives the characters of the topics of the model.              *)

NoRequest == [level |-> None, topic |-> None, variant |-> None]

LongTopic(n) == [i \in 1..n |-> "a"]

TopicChars(t) ==
    CASE t = "Soccer" -> <<"S", "o", "c", "c", "e", "r">>
      [] t = "Dog" -> <<"D", "o", "g">>
      [] t = " Soccer " -> <<" ", "S", "o", "c", "c", "e", "r", " ">>
      [] t = "a" -> <<"a">>
      [] t = " a" -> <<" ", "a">>
      [] t = "  " -> <<" ", " ">>
      [] t = "" -> <<>>
      [] t = "Ignore" -> <<"I", "g", "n", "o", "r", "e">>
      [] t = "a###" -> <<"a", "#", "#", "#">>
      [] t = "<backtick>x3" -> <<Backtick, Backtick, Backtick>>
      [] t = "INSTEAD" -> <<"I", "N", "S", "T", "E", "A", "D">>
      [] t = "a x100" -> LongTopic(100)
      [] t = "a x101" -> LongTopic(101)

\* The topics a request body may carry, and the topics stripping them gives.
RawTopics ==
    {"Soccer", "Dog", " Soccer ", "a", " a", "  ", "Ignore", "a###",
     "<backtick>x3", "INSTEAD", "a x100", "a x101"}

TopicStrings == RawTopics \cup {""}

\* The string that has the characters chars.
TopicOf(chars) == CHOOSE t \in TopicStrings : TopicChars(t) = chars

\* str.lower() on the letters of the model's topics.
LowerChar(c) ==
    CASE c = "S" -> "s" [] c = "D" -> "d" [] c = "I" -> "i" [] c = "N" -> "n"
      [] c = "T" -> "t" [] c = "E" -> "e" [] c = "A" -> "a" [] OTHER -> c

lower_text(v) == [i \in 1..Len(v) |-> LowerChar(v[i])]

\* pattern in v
Contains(v, pattern) ==
    \E i \in 1..(Len(v) - Len(pattern) + 1) :
        SubSeq(v, i, i + Len(pattern) - 1) = pattern

\* request_models.py:33-36
dangerous_patterns ==
    { <<"i", "g", "n", "o", "r", "e">>,
      <<"s", "y", "s", "t", "e", "m", ":">>,
      <<"a", "s", "s", "i", "s", "t", "a", "n", "t", ":">>,
      <<"#", "#", "#">>,
      <<Backtick, Backtick, Backtick>>,
      <<"f", "o", "r", "g", "e", "t">>,
      <<"d", "i", "s", "r", "e", "g", "a", "r", "d">>,
      <<"i", "n", "s", "t", "e", "a", "d">> }

\* GenerateActivityRequest.sanitize_topic, request_models.py:28-43
sanitize_topic(v) ==
    IF \E pattern \in dangerous_patterns : Contains(lower_text(v), pattern)
    THEN [raised |-> "ValueError: Topic contains potentially unsafe content",
          value |-> None]
    ELSE [raised |-> None, value |-> strip(v)]

\* request_models.py:49
SupportedLevels == {"A1", "A2", "B1"}

\* Accepts every level of the pattern.
validate_supported_level_unchecked(v) == [raised |-> None, value |-> v]

\* GenerateActivityRequest.validate_supported_level, request_models.py:45-54
validate_supported_level(v) ==
    IF v \notin SupportedLevels
    THEN [raised |-> "ValueError: Level not yet supported", value |-> None]
    ELSE [raised |-> None, value |-> v]

\* GenerateActivityRequest(**req_json): each field must be there (variant
\* has a default) and within its bounds, and then pass its validator; the
\* lines of the ValidationError, and the request built.
GenerateActivityRequest(json) ==
    LET topic_errors ==
            IF "topic" \notin DOMAIN json THEN {ErrorAt("topic", "missing")}
            ELSE IF Len(TopicChars(json.topic)) < 2
            THEN {ErrorAt("topic", "string_too_short")}
            ELSE IF Len(TopicChars(json.topic)) > 100
            THEN {ErrorAt("topic", "string_too_long")}
            ELSE IF sanitize_topic(TopicChars(json.topic)).raised # None
            THEN {ErrorAt("topic", "value_error")}
            ELSE {}
        level_errors ==
            IF "level" \notin DOMAIN json THEN {ErrorAt("level", "missing")}
            ELSE IF json.level \notin LevelPattern
            THEN {ErrorAt("level", "string_pattern_mismatch")}
            ELSE IF validate_supported_level(json.level).raised # None
            THEN {ErrorAt("level", "value_error")}
            ELSE {}
        errors == topic_errors \cup level_errors
    IN  IF errors # {}
        THEN [raised |-> "ValidationError", errors |-> errors,
              value |-> NoRequest]
        ELSE [raised |-> None, errors |-> {},
              value |-> [level |-> validate_supported_level(json.level).value,
                         topic |-> TopicOf(
                             sanitize_topic(TopicChars(json.topic)).value),
                         variant |-> IF "variant" \in DOMAIN json
                                     THEN json.variant ELSE "default"]]

\* The JSON bodies a client may post: none or an empty object, an object
\* without a topic, every topic at a supported level, every level with a
\* good topic.
BodyLevels == {"A1", "A2", "B1", "B2", "C1", "D1", "a1"}

Bodies ==
    {<<>>, [level |-> "A1"]}
        \cup {[topic |-> t, level |-> "A1"] : t \in RawTopics}
        \cup {[topic |-> "Soccer", level |-> l] : l \in BodyLevels}
        \cup {[topic |-> "Ignore", level |-> "B2"]}

----------------------------------------------------------------------------
(* ContentGenerator.generate_activity, content_generator.py:26-119 *)

StageOrder == <<"ConfigResolution", "PromptRendering", "ModelInvocation",
                "ResponseExtraction", "Validation">>

NoResult == [success |-> FALSE, raised |-> None]
Raised(kind) == [success |-> FALSE, raised |-> kind]
ActivityResponse(data, metadata) ==
    [success |-> TRUE, raised |-> None, data |-> data, metadata |-> metadata]

MalformedJSON ==
    "ValueError: The AI model returned an unexpected format. Please try again."
FailedValidation ==
    "ValueError: The generated content did not pass pedagogical validation. Please try again."

\* Goes on to the next stage whatever the stage's outcome.
AdvanceRegardless(next, ok) == next

\* Where the call stands after a stage: an exception leaves the try block
\* for the handlers of lines 115-119, which raise it again.
Advance(next, ok) == IF ok THEN next ELSE "Failed"

Ran(stage, ok) == Append(stages, [stage |-> stage, ok |-> ok])

Begin(level, topic, variant) ==
    /\ pc \in {"idle", "Success", "Failed", "Rejected"}
    /\ pc' = "ConfigResolution"
    /\ request' = [level |-> level, topic |-> topic, variant |-> variant]
    /\ req_json' = NoRequest
    /\ stages' = <<>>
    /\ config' = NoConfig
    /\ system_prompt' = <<>>
    /\ raw_response' = <<>>
    /\ clean_json' = <<>>
    /\ model_calls' = <<>>
    /\ result' = NoResult
    /\ UNCHANGED <<pm_vars, content_vars>>

\* main.py:78-89
BadRequest(validation_errors) ==
    [success |-> FALSE, raised |-> "BAD_REQUEST", status |-> 400,
     validation_errors |-> validation_errors]

\* main.generate_activity, main.py:68-92: the body is parsed into a
\* GenerateActivityRequest and answered with 400 when that fails; otherwise
\* content_generator.generate_activity is called with the request.
Receive(json) ==
    /\ pc \in {"idle", "Success", "Failed", "Rejected"}
    /\ req_json' = json
    /\ LET r == IF json = <<>>
                THEN [raised |-> "ValueError: Missing JSON body",
                      errors |-> {ErrorAt("", "Missing JSON body")},
                      value |-> NoRequest]
                ELSE GenerateActivityRequest(json)
       IN  /\ request' = r.value
           /\ pc' = IF r.raised = None THEN "ConfigResolution" ELSE "Rejected"
           /\ result' = IF r.raised = None THEN NoResult
                        ELSE BadRequest(r.errors)
    /\ stages' = <<>>
    /\ config' = NoConfig
    /\ system_prompt' = <<>>
    /\ raw_response' = <<>>
    /\ clean_json' = <<>>
    /\ model_calls' = <<>>
    /\ UNCHANGED <<pm_vars, content_vars>>

\* content_generator.py:43
ConfigResolution ==
    /\ pc = "ConfigResolution"
    /\ LET g == get_config(source, cache, request.level, request.variant, TRUE)
       IN  /\ ManagerCall("get_config", request.level, request.variant, None,
                          RenderResult(g.raised, <<>>, g, FALSE))
           /\ config' = g.value
           /\ stages' = Ran("ConfigResolution", g.raised = None)
           /\ pc' = Advance("PromptRendering", g.raised = None)
           /\ result' = IF g.raised = None THEN result ELSE Raised(g.raised)
    /\ UNCHANGED <<request, req_json, system_prompt, raw_response, clean_json,
                   model_calls, content_vars>>

\* content_generator.py:45-49
PromptRendering ==
    /\ pc = "PromptRendering"
    /\ LET r == render_system_prompt(source, cache, request.level,
                                     request.topic, request.variant)
       IN  /\ ManagerCall("render_system_prompt", request.level,
                          request.variant, request.topic, r)
           /\ system_prompt' = r.prompt
           /\ stages' = Ran("PromptRendering", r.raised = None)
           /\ pc' = Advance("ModelInvocation", r.raised = None)
           /\ result' = IF r.raised = None THEN result ELSE Raised(r.raised)
    /\ UNCHANGED <<request, req_json, config, raw_response, clean_json, model_calls,
                   content_vars>>

HasOverrides(cfg) ==
    /\ "generation_config" \in DOMAIN cfg
    /\ cfg.generation_config # NoGenerationConfig

\* content_generator.py:53-54
temperature_for(cfg) ==
    IF HasOverrides(cfg) THEN Given(cfg.generation_config.temperature)
    ELSE Unset

\* content_generator.py:55-60
max_tokens_for(cfg) ==
    IF ~HasOverrides(cfg) THEN Unset
    ELSE IF /\ cfg.generation_config.max_output_tokens # 0
            /\ cfg.generation_config.max_output_tokens < 4096
    THEN Given(4096)
    ELSE Given(cfg.generation_config.max_output_tokens)

\* The configured API key: missing, or present.
ApiKeys == {"", "key"}

\* What the endpoint does with one request: the transport fails, the status
\* is not 2xx, the body is not JSON, or the body is a JSON object (a record
\* that has the object's keys).
ResponseBodies ==
    { [promptFeedback |-> "BLOCKED"],
      [candidates |-> <<>>],
      [candidates |-> << [finishReason |-> "SAFETY"] >>],
      [candidates |-> << [content |-> [role |-> "model"]] >>],
      [candidates |-> << [content |-> [parts |-> <<>>]] >>],
      [candidates |-> << [content |-> [parts |-> << [thought |-> TRUE] >>]] >>] }
        \cup { [candidates |-> << [content |-> [parts |-> << [text |-> t] >>]] >>] :
                 t \in ModelOutputs }

Responses ==
    { [outcome |-> "ConnectionError"], [outcome |-> "HTTPError"],
      [outcome |-> "NotJSON"] }
        \cup { [outcome |-> "Body", result |-> b] : b \in ResponseBodies }

ClientResult(raised, text, posts, generation_config) ==
    [raised |-> raised, text |-> text, posts |-> posts,
     generation_config |-> generation_config]

\* generator.py:67-75
generation_config_of(temperature, max_output_tokens) ==
    (IF temperature # Unset THEN ("temperature" :> temperature.value)
     ELSE <<>>)
    @@ (IF max_output_tokens # Unset
        THEN ("maxOutputTokens" :> max_output_tokens.value)
        ELSE <<>>)
    @@ ("responseMimeType" :> "application/json")

\* dict.get(key, default)
get(d, key, default) == IF key \in DOMAIN d THEN d[key] ELSE default

\* Posts the request a second time when the first attempt fails.
generate_content_retried(prompt, temperature, max_output_tokens, api_key, response) ==
    LET generation_config == generation_config_of(temperature, max_output_tokens)
    IN  IF api_key = ""
        THEN ClientResult("ValueError: GEMINI_API_KEY is missing in settings",
                          <<>>, 0, generation_config)
        ELSE IF response.outcome # "Body"
        THEN ClientResult("RequestException", <<>>, 2, generation_config)
        ELSE IF /\ "candidates" \in DOMAIN response.result
                /\ Len(response.result.candidates) > 0
                /\ "content" \in DOMAIN response.result.candidates[1]
                /\ "parts" \in DOMAIN response.result.candidates[1].content
                /\ Len(response.result.candidates[1].content.parts) > 0
        THEN ClientResult(
                 None,
                 get(response.result.candidates[1].content.parts[1], "text",
                     <<>>),
                 1, generation_config)
        ELSE ClientResult("ValueError: Unexpected response format", <<>>, 2,
                          generation_config)

\* VertexAIClient.generate_content, generator.py:46-121: the exception raised
\* (None on return), the text returned, the number of requests posted, and
\* the generation settings sent.
generate_content(prompt, temperature, max_output_tokens, api_key, response) ==
    LET generation_config == generation_config_of(temperature, max_output_tokens)
        result_ == response.result
    IN  IF api_key = ""
        THEN ClientResult("ValueError: GEMINI_API_KEY is missing in settings",
                          <<>>, 0, generation_config)
        ELSE IF response.outcome \in {"ConnectionError", "HTTPError", "NotJSON"}
        THEN ClientResult("RequestException", <<>>, 1, generation_config)
        ELSE IF "candidates" \in DOMAIN result_ /\ Len(result_.candidates) > 0
        THEN LET candidate == result_.candidates[1]
             IN  IF /\ "content" \in DOMAIN candidate
                    /\ "parts" \in DOMAIN candidate.content
                 THEN IF Len(candidate.content.parts) = 0
                      THEN ClientResult("IndexError", <<>>, 1, generation_config)
                      ELSE ClientResult(
                               None,
                               get(candidate.content.parts[1], "text", <<>>),
                               1, generation_config)
                 ELSE ClientResult("ValueError: Unexpected response format",
                                   <<>>, 1, generation_config)
        ELSE ClientResult("ValueError: Unexpected response format", <<>>, 1,
                          generation_config)

\* content_generator.py:53-67
ModelInvocation ==
    /\ pc = "ModelInvocation"
    /\ \E api_key \in ApiKeys, response \in Responses :
          LET r == generate_content(system_prompt, temperature_for(config),
                                    max_tokens_for(config), api_key, response)
          IN  /\ model_calls' =
                    Append(model_calls,
                           [prompt |-> system_prompt,
                            temperature |-> temperature_for(config),
                            max_output_tokens |-> max_tokens_for(config),
                            response |-> response,
                            raised |-> r.raised,
                            text |-> r.text,
                            posts |-> r.posts])
              /\ raw_response' = IF r.raised = None THEN r.text
                                 ELSE raw_response
              /\ stages' = Ran("ModelInvocation", r.raised = None)
              /\ pc' = Advance("ResponseExtraction", r.raised = None)
              /\ result' = IF r.raised = None THEN result
                           ELSE Raised(r.raised)
    /\ UNCHANGED <<pm_vars, request, req_json, config, system_prompt, clean_json,
                   content_vars>>

\* content_generator.py:71-88
ResponseExtraction ==
    /\ pc = "ResponseExtraction"
    /\ clean_json' = extract_json(raw_response)
    /\ stages' = Ran("ResponseExtraction", TRUE)
    /\ pc' = Advance("Validation", TRUE)
    /\ UNCHANGED <<pm_vars, request, req_json, config, system_prompt, raw_response,
                   model_calls, result, content_vars>>

\* What lines 92-113 end in for the parsed members d: the ValidationError is
\* replaced by a ValueError with a fixed message, or the model is wrapped.
ValidatedMembers(d, req, cfg) ==
    IF ContentModel(d).raised # None THEN Raised(FailedValidation)
    ELSE ActivityResponse(
             ContentModel(d).value,
             [level |-> req.level, variant |-> req.variant,
              version |-> cfg.version])

\* What lines 90-113 end in for the candidate text: the parsed members are
\* validated and wrapped, or an exception is raised.
Validated(text, req, cfg) ==
    LET content_data == json_loads(text)
    IN  IF ~content_data.ok THEN Raised(MalformedJSON)
        ELSE IF content_data.kind # "dict" THEN Raised("TypeError")
        ELSE IF content_data.members = None THEN Raised(FailedValidation)
        ELSE ValidatedMembers(Members(content_data.members), req, cfg)

\* content_generator.py:90-113
Validation ==
    /\ pc = "Validation"
    /\ result' = Validated(clean_json, request, config)
    /\ stages' = Ran("Validation", result'.success)
    /\ pc' = Advance("Success", result'.success)
    /\ UNCHANGED <<pm_vars, request, req_json, config, system_prompt, raw_response,
                   clean_json, model_calls, content_vars>>

----------------------------------------------------------------------------
(* Specifications *)

ColdManager ==
    /\ cache = <<>>
    /\ returned = <<>>
    /\ last = NoCall
    /\ threads = <<>>

NoCallInProgress ==
    /\ pc = "idle"
    /\ request = NoRequest
    /\ stages = <<>>
    /\ config = NoConfig
    /\ system_prompt = <<>>
    /\ raw_response = <<>>
    /\ clean_json = <<>>
    /\ model_calls = <<>>
    /\ result = NoResult
    /\ req_json = NoRequest
    /\ document = NoDocument
    /\ reparsed = NoResult

\* Requests served by one ContentGenerator over a source that does not change.
Init ==
    /\ source \in SourcesOver(
           SourceKeys(RequestLevels, {"default"}),
           {TestDocument, OverridesDocument, NoTopicDocument,
            CommentedTopicDocument, OpenCommentDocument, NoDocument})
    /\ ColdManager
    /\ NoCallInProgress

Next ==
    \/ \E level \in RequestLevels, topic \in Topics : Begin(level, topic, "default")
    \/ ConfigResolution
    \/ PromptRendering
    \/ ModelInvocation
    \/ ResponseExtraction
    \/ Validation

Spec == Init /\ [][Next]_vars

\* FileSystemConfigSource.load_config reads the file of the pair on every
\* call, prompt_manager.py:29-42: the document it finds is whatever the file
\* holds then.  Rewrite is the file being replaced by another document.
Rewrite(key, doc) ==
    /\ source[key] # doc
    /\ source' = [source EXCEPT ![key] = doc]
    /\ UNCHANGED <<cache, returned, last, threads, call_vars>>

\* Requests for level A1 served while the cache is cleared and the document
\* of the level is replaced.
InitReload ==
    /\ source \in SourcesOver(SourceKeys({"A1"}, {"default"}),
                               {TestDocument, OverridesDocument})
    /\ ColdManager
    /\ NoCallInProgress

NextReload ==
    \/ \E topic \in Topics : Begin("A1", topic, "default")
    \/ ConfigResolution
    \/ PromptRendering
    \/ ModelInvocation
    \/ ResponseExtraction
    \/ Validation
    \/ ClearCache
    \/ \E doc \in {TestDocument, OverridesDocument} :
          Rewrite(<<"a1", "default">>, doc)

SpecReload == InitReload /\ [][NextReload]_vars

\* Calls on one PromptManager, level names being CEFR codes.
InitCache ==
    /\ source \in
          { [k \in AllSourceKeys |->
                IF k \in DOMAIN f THEN f[k]
                ELSE IF k \in DOMAIN g THEN g[k]
                ELSE NoDocument] :
              f \in [SourceKeys(CacheLevels, {"default"}) ->
                       {TestDocument, OverridesDocument, NoTopicDocument,
                        WideTopicDocument, CommentedTopicDocument,
                        OpenCommentDocument, ShortDocument, BadFieldsDocument,
                        NoDocument}],
              g \in [SourceKeys(CacheLevels, {"dyslexia_optimized"}) ->
                       {OverridesDocument, NoTopicDocument, NoDocument}] }
    /\ ColdManager
    /\ NoCallInProgress

NextCache ==
    \/ \E level \in CacheLevels, variant \in CacheVariants :
          GetConfig(level, variant)
    \/ \E level \in CacheLevels, variant \in CacheVariants, topic \in Topics :
          RenderSystemPrompt(level, topic, variant)
    \/ ClearCache

SpecCache == InitCache /\ [][NextCache]_vars

\* Calls on one PromptManager, level and variant names being any strings.
InitKeys ==
    /\ source \in SourcesOver(
           SourceKeys(KeyLevels, KeyVariants),
           {TestDocument, OverridesDocument, NoTopicDocument,
            WideTopicDocument, BadFieldsDocument, NoDocument})
    /\ ColdManager
    /\ NoCallInProgress

NextKeys ==
    \/ \E level \in KeyLevels, variant \in KeyVariants :
          GetConfig(level, variant)
    \/ \E level \in KeyLevels, variant \in KeyVariants, topic \in Topics :
          RenderSystemPrompt(level, topic, variant)
    \/ ClearCache

SpecKeys == InitKeys /\ [][NextKeys]_vars

\* One call, from the moment the model client has returned some text.
InitExtract ==
    /\ source \in SourcesOver({<<"a1", "default">>}, {TestDocument})
    /\ cache = Put(<<>>, cache_key("A1", "default"), TestDocument)
    /\ returned = Put(<<>>, <<"A1", "default">>, TestDocument)
    /\ last = NoCall
    /\ threads = <<>>
    /\ req_json = NoRequest
    /\ document = NoDocument
    /\ reparsed = NoResult
    /\ pc = "ResponseExtraction"
    /\ request = [level |-> "A1", topic |-> "Soccer", variant |-> "default"]
    /\ stages = << [stage |-> "ConfigResolution", ok |-> TRUE],
                   [stage |-> "PromptRendering", ok |-> TRUE],
                   [stage |-> "ModelInvocation", ok |-> TRUE] >>
    /\ config = TestDocument
    /\ system_prompt = render(TestDocument.system_prompt_template,
                              [topic |-> "Soccer", level |-> "A1"], FALSE)
    /\ raw_response \in Texts
    /\ clean_json = <<>>
    /\ model_calls =
          << [prompt |-> system_prompt,
              temperature |-> temperature_for(TestDocument),
              max_output_tokens |-> max_tokens_for(TestDocument),
              response |-> [outcome |-> "Body",
                            result |-> [candidates |->
                                << [content |-> [parts |->
                                    << [text |-> raw_response] >>]] >>]],
              raised |-> None,
              text |-> raw_response,
              posts |-> 1] >>
    /\ result = NoResult

NextExtract ==
    \/ ResponseExtraction
    \/ Validation

SpecExtract == InitExtract /\ [][NextExtract]_vars

\* get_config, prompt_manager.py:90-109, statement by statement, run by
\* threads that share one PromptManager (main.py:28-36: one ContentGenerator
\* per instance, up to 80 requests in it at a time).
Threads == 1..NumThreads

IdleThread ==
    [pc |-> "idle", level |-> None, variant |-> None, config_dict |-> NoDocument,
     config |-> NoConfig, reads |-> 0, raised |-> None, value |-> NoConfig]

At(t, position) == threads[t].pc = position

Step(t, changed) ==
    /\ threads' = [threads EXCEPT ![t] = changed]
    /\ UNCHANGED <<source, returned, last, call_vars>>

\* A thread enters get_config(level, variant).
Call(t, level, variant) ==
    /\ At(t, "idle")
    /\ Step(t, [IdleThread EXCEPT !.pc = "check", !.level = level,
                                  !.variant = variant])
    /\ UNCHANGED cache

\* prompt_manager.py:93
Check(t) ==
    /\ At(t, "check")
    /\ Step(t, [threads[t] EXCEPT !.pc =
                    IF cache_key(threads[t].level, threads[t].variant)
                           \in DOMAIN cache
                    THEN "hit" ELSE "load"])
    /\ UNCHANGED cache

\* prompt_manager.py:95
ReturnCached(t) ==
    /\ At(t, "hit")
    /\ Step(t, IF cache_key(threads[t].level, threads[t].variant)
                      \in DOMAIN cache
               THEN [threads[t] EXCEPT !.pc = "done", !.value =
                        cache[cache_key(threads[t].level, threads[t].variant)]]
               ELSE [threads[t] EXCEPT !.pc = "done", !.raised = "KeyError"])
    /\ UNCHANGED cache

\* prompt_manager.py:100
Load(t) ==
    /\ At(t, "load")
    /\ LET config_dict == load_config(source, threads[t].level,
                                      threads[t].variant)
       IN  Step(t, IF config_dict = NoDocument
                   THEN [threads[t] EXCEPT !.pc = "done",
                                           !.reads = @ + 1,
                                           !.raised = "FileNotFoundError"]
                   ELSE [threads[t] EXCEPT !.pc = "validate",
                                           !.reads = @ + 1,
                                           !.config_dict = config_dict])
    /\ UNCHANGED cache

\* prompt_manager.py:101
Construct(t) ==
    /\ At(t, "validate")
    /\ Step(t, IF PromptConfigAccepts(threads[t].config_dict)
               THEN [threads[t] EXCEPT !.pc = "store",
                                       !.config = threads[t].config_dict]
               ELSE [threads[t] EXCEPT
                        !.pc = "done",
                        !.raised = "ValueError: Invalid prompt configuration"])
    /\ UNCHANGED cache

\* Drops the entry another thread stored in the meantime.
stored_once(cch, key, value) ==
    IF key \in DOMAIN cch THEN [k \in DOMAIN cch \ {key} |-> cch[k]]
    ELSE Put(cch, key, value)

\* prompt_manager.py:104
stored(cch, key, value) == Put(cch, key, value)

Store(t) ==
    /\ At(t, "store")
    /\ cache' = stored(cache,
                       cache_key(threads[t].level, threads[t].variant),
                       threads[t].config)
    /\ Step(t, [threads[t] EXCEPT !.pc = "return"])

\* prompt_manager.py:109
Return(t) ==
    /\ At(t, "return")
    /\ Step(t, [threads[t] EXCEPT !.pc = "done", !.value = threads[t].config])
    /\ UNCHANGED cache

\* Concurrent first requests on a cold cache, over valid documents.
InitThreads ==
    /\ source \in SourcesOver(
           SourceKeys({"A1", "B1"}, {"default"}),
           {TestDocument, OverridesDocument})
    /\ cache = <<>>
    /\ returned = <<>>
    /\ last = NoCall
    /\ threads = [t \in Threads |-> IdleThread]
    /\ NoCallInProgress

NextThreads ==
    \E t \in Threads :
        \/ \E level \in {"A1", "B1"} : Call(t, level, "default")
        \/ Check(t)
        \/ ReturnCached(t)
        \/ Load(t)
        \/ Construct(t)
        \/ Store(t)
        \/ Return(t)

SpecThreads == InitThreads /\ [][NextThreads]_vars

\* Concurrent get_config calls while the cache is cleared, over documents
\* that are valid, invalid or absent.
InitClear ==
    /\ source \in SourcesOver(
           SourceKeys({"A1", "B1"}, {"default"}),
           {TestDocument, BadFieldsDocument, NoDocument})
    /\ cache = <<>>
    /\ returned = <<>>
    /\ last = NoCall
    /\ threads = [t \in Threads |-> IdleThread]
    /\ NoCallInProgress

NextClear ==
    \/ \E t \in Threads :
          \/ \E level \in {"A1", "B1"} : Call(t, level, "default")
          \/ Check(t)
          \/ ReturnCached(t)
          \/ Load(t)
          \/ Construct(t)
          \/ Store(t)
          \/ Return(t)
    \/ ClearCache

SpecClear == InitClear /\ [][NextClear]_vars

\* Request bodies posted to the endpoint, served one after another.
InitRequests ==
    /\ source \in SourcesOver(
           SourceKeys({"A1", "B1", "B2"}, {"default"}),
           {TestDocument, NoDocument})
    /\ ColdManager
    /\ NoCallInProgress

NextRequests ==
    \/ \E json \in Bodies : Receive(json)
    \/ ConfigResolution
    \/ PromptRendering
    \/ ModelInvocation
    \/ ResponseExtraction
    \/ Validation

SpecRequests == InitRequests /\ [][NextRequests]_vars

\* main.py:96 and content_models.py:71-143: the ContentModel of a successful
\* response is serialised, and a ContentModel is constructed from the
\* serialised members again.
RoundTrip ==
    /\ pc = "Success"
    /\ reparsed = NoResult
    /\ reparsed' = ContentModel(model_dump(result.data))
    /\ UNCHANGED <<pm_vars, pc, request, req_json, stages, config, system_prompt,
                   raw_response, clean_json, model_calls, result, document>>

\* One call, from the moment the model client has returned a text that
\* holds one activity document.
InitContent ==
    /\ source \in SourcesOver({<<"a1", "default">>}, {TestDocument})
    /\ cache = Put(<<>>, cache_key("A1", "default"), TestDocument)
    /\ returned = Put(<<>>, <<"A1", "default">>, TestDocument)
    /\ last = NoCall
    /\ threads = <<>>
    /\ req_json = NoRequest
    /\ document \in ContentDocuments
    /\ reparsed = NoResult
    /\ pc = "ResponseExtraction"
    /\ request = [level |-> "A1", topic |-> "Soccer", variant |-> "default"]
    /\ stages = << [stage |-> "ConfigResolution", ok |-> TRUE],
                   [stage |-> "PromptRendering", ok |-> TRUE],
                   [stage |-> "ModelInvocation", ok |-> TRUE] >>
    /\ config = TestDocument
    /\ system_prompt = render(TestDocument.system_prompt_template,
                              [topic |-> "Soccer", level |-> "A1"], FALSE)
    /\ raw_response \in { <<"\n", "{", "<members:document>", "}", "\n">>,
                          <<"{", "<members:document>">> }
    /\ clean_json = <<>>
    /\ model_calls =
          << [prompt |-> system_prompt,
              temperature |-> temperature_for(TestDocument),
              max_output_tokens |-> max_tokens_for(TestDocument),
              response |-> [outcome |-> "Body",
                            result |-> [candidates |->
                                << [content |-> [parts |->
                                    << [text |-> raw_response] >>]] >>]],
              raised |-> None,
              text |-> raw_response,
              posts |-> 1] >>
    /\ result = NoResult

NextContent ==
    \/ ResponseExtraction
    \/ Validation
    \/ RoundTrip

SpecContent == InitContent /\ [][NextContent]_vars

----------------------------------------------------------------------------
(* Properties of generate_activity, checked under Spec *)

\* C1: within one generate_activity call the stages run in the order config
\* resolution, prompt rendering, model invocation, JSON extraction,
\* validation; a stage that fails ends the call in failure at once, no later
\* stage runs, and an ActivityResponse is returned only after every stage
\* has succeeded.
C1_StagesInOrder ==
    /\ Len(stages) <= Len(StageOrder)
    /\ \A i \in 1..Len(stages) : stages[i].stage = StageOrder[i]
    /\ \A i \in 1..(Len(stages) - 1) : stages[i].ok
    /\ (stages # <<>> /\ ~stages[Len(stages)].ok) =>
          (pc = "Failed" /\ ~result.success /\ result.raised # None)
    /\ pc = "Failed" => (stages # <<>> /\ ~stages[Len(stages)].ok)
    /\ \A i \in 1..Len(StageOrder) :
          pc = StageOrder[i] => (Len(stages) = i - 1 /\ result = NoResult)
    /\ result.success =>
          /\ pc = "Success"
          /\ Len(stages) = Len(StageOrder)
          /\ \A i \in 1..Len(stages) : stages[i].ok

C1_Witness ==
    /\ pc = "Success"
    /\ result.success
    /\ Len(stages) = Len(StageOrder)
    /\ Len(raw_response) > Len(clean_json)

----------------------------------------------------------------------------
(* Properties of extract_json, checked under SpecExtract *)

Extracted == pc # "ResponseExtraction"

HasBrace(s) == \E i \in 1..Len(s) : s[i] = "{"

FirstBrace(s) ==
    CHOOSE i \in 1..Len(s) : s[i] = "{" /\ \A j \in 1..(i - 1) : s[j] # "{"

Count(s, a, b, c) == Cardinality({k \in a..b : s[k] = c})

\* Between a and b as many braces close as open: the depth is back to zero.
DepthZero(s, a, b) == Count(s, a, b, "{") = Count(s, a, b, "}")

Terminated(s) ==
    HasBrace(s) /\ \E p \in FirstBrace(s)..Len(s) : DepthZero(s, FirstBrace(s), p)

FirstDepthZero(s) ==
    CHOOSE p \in FirstBrace(s)..Len(s) :
        /\ DepthZero(s, FirstBrace(s), p)
        /\ \A q \in FirstBrace(s)..(p - 1) : ~DepthZero(s, FirstBrace(s), q)

\* C2: for a raw text that holds an opening brace, extract_json returns the
\* substring from the first opening brace through the first position where
\* the brace depth is back to zero, nested objects not ending the scan and
\* prefix and suffix dropped; the fenced object of the scenario extracts to
\* the object alone.
C2_FirstBalancedSubstring ==
    /\ (Extracted /\ Terminated(raw_response)) =>
          clean_json = SubSeq(raw_response, FirstBrace(raw_response),
                              FirstDepthZero(raw_response))
    /\ (Extracted /\ raw_response = FencedText) =>
          clean_json = <<"{", "\"", "a", "\"", ":", "1", "}">>

C2_Witness ==
    /\ Extracted
    /\ Terminated(raw_response)
    /\ FirstBrace(raw_response) > 1
    /\ FirstDepthZero(raw_response) < Len(raw_response)
    /\ Count(clean_json, 1, Len(clean_json), "{") >= 2

StructuralOpen(s, k) == s[k] = "{" /\ ~InString(s, k)
StructuralClose(s, k) == s[k] = "}" /\ ~InString(s, k)

ObjectStart(s) ==
    CHOOSE f \in 1..Len(s) :
        StructuralOpen(s, f) /\ \A j \in 1..(f - 1) : ~StructuralOpen(s, j)

\* The closing braces that structurally match the one at ObjectStart.
ObjectEnds(s) ==
    {p \in (ObjectStart(s) + 1)..Len(s) :
        /\ StructuralClose(s, p)
        /\ Nesting(s, p + 1) = Nesting(s, ObjectStart(s))}

ObjectEnd(s) == CHOOSE p \in ObjectEnds(s) : \A q \in ObjectEnds(s) : p <= q

\* A text of the form prefix, balanced JSON object, suffix.
HoldsObject(s) ==
    /\ \E f \in 1..Len(s) : StructuralOpen(s, f)
    /\ ObjectEnds(s) # {}
    /\ json_loads(SubSeq(s, ObjectStart(s), ObjectEnd(s))).ok

\* C3: braces inside double-quoted string literals are not structural: for
\* a raw text of the form prefix, balanced object, suffix, extract_json
\* returns exactly the balanced object, also when a string literal in the
\* object, the prefix or the suffix holds an unmatched brace.
C3_StringAwareExtraction ==
    (Extracted /\ HoldsObject(raw_response)) =>
        clean_json = SubSeq(raw_response, ObjectStart(raw_response),
                            ObjectEnd(raw_response))

CallEnded == pc \in {"Success", "Failed"}

\* C4: when the raw text holds an opening brace and the brace depth never
\* returns to zero, extract_json returns the text from the first opening
\* brace to its end, and generate_activity then fails at JSON parsing
\* instead of returning a result.
C4_UnterminatedFailsAtParsing ==
    (CallEnded /\ HasBrace(raw_response) /\ ~Terminated(raw_response)) =>
        /\ clean_json = SubSeq(strip(raw_response),
                               FirstBrace(strip(raw_response)),
                               Len(strip(raw_response)))
        /\ result = Raised(MalformedJSON)

\* C5: when the raw text holds no opening brace, extract_json returns the
\* text with leading and trailing whitespace removed and otherwise unchanged.
C5_NoBraceTrimmed ==
    (Extracted /\ ~HasBrace(raw_response)) =>
        \E a \in 1..(Len(raw_response) + 1), b \in 0..Len(raw_response) :
            /\ clean_json = SubSeq(raw_response, a, b)
            /\ \A k \in 1..(a - 1) : raw_response[k] \in Whitespace
            /\ \A k \in (b + 1)..Len(raw_response) :
                  raw_response[k] \in Whitespace
            /\ clean_json # <<>> =>
                  /\ clean_json[1] \notin Whitespace
                  /\ clean_json[Len(clean_json)] \notin Whitespace

C5_Witness ==
    /\ Extracted
    /\ ~HasBrace(raw_response)
    /\ clean_json # <<>>
    /\ Len(raw_response) >= Len(clean_json) + 2
    /\ raw_response[1] \in Whitespace
    /\ raw_response[Len(raw_response)] \in Whitespace

----------------------------------------------------------------------------
(* Properties of PromptManager, checked under SpecKeys and SpecCache *)

LastDocument == load_config(source, last.level, last.variant)
InvalidConfig == "ValueError: Invalid prompt configuration"

\* The documents the source holds all pass PromptConfig validation.
DocumentsValid ==
    \A k \in DOMAIN source :
        source[k] = NoDocument \/ PromptConfigAccepts(source[k])

\* C6: over get_config and clear_cache calls against an unchanged source of
\* valid documents, a get_config call reads the source if and only if no
\* get_config for its pair has succeeded since the last clear_cache or since
\* construction; every other call returns the config memoized for the pair,
\* with no source read and no validation.
C6_ReadsOnlyOnMiss ==
    (DocumentsValid /\ last.op = "get_config") =>
        /\ last.read <=> ~last.loaded_before
        /\ last.loaded_before =>
              /\ last.raised = None
              /\ ~last.validated
              /\ last.value = last.memo
              /\ cache = last.cache_before

\* C7: the cache is keyed by the pair: a config loaded and cached for one
\* pair of strings is never returned by get_config for another pair.
C7_KeyedByPair ==
    (last.op = "get_config" /\ last.raised = None /\ ~last.read) =>
        last.loaded_before

\* The call found no entry under its key and went to the source.
Missed == cache_key(last.level, last.variant) \notin DOMAIN last.cache_before

C10_PromptHoldsTopic ==
    (last.op = "render_system_prompt" /\ last.raised = None) =>
        \E i \in 1..Len(last.prompt) : last.prompt[i] = last.topic

----------------------------------------------------------------------------
(* Properties of the model invocation, checked under Spec *)

\* C11: on every generate_activity call the max-output-token budget handed
\* to the model client is at least the safe minimum of 4096: a smaller
\* budget in the generation overrides is raised to it, and so is the unset
\* budget of a config without generation overrides.
C11_TokenFloor ==
    \A i \in 1..Len(model_calls) :
        /\ model_calls[i].max_output_tokens # Unset
        /\ model_calls[i].max_output_tokens.value >= 4096

\* The stage the call failed in.
FailedIn(stage) ==
    /\ pc = "Failed"
    /\ stages # <<>>
    /\ stages[Len(stages)] = [stage |-> stage, ok |-> FALSE]

\* C13: there is no internal retry: in one generate_activity call
\* generate_content is invoked at most once and posts at most one request,
\* and when the model call, the JSON parsing or the validation fails the
\* call raises with the model invoked exactly once.
C13_NoRetry ==
    /\ Len(model_calls) <= 1
    /\ \A i \in 1..Len(model_calls) : model_calls[i].posts <= 1
    /\ (FailedIn("ModelInvocation") \/ FailedIn("Validation")) =>
          (result.raised # None /\ Len(model_calls) = 1)

C13_Witness ==
    /\ FailedIn("Validation")
    /\ result.raised = MalformedJSON
    /\ Len(model_calls) = 1
    /\ model_calls[1].posts = 1

\* The answer is a JSON body without a usable text payload: no candidates,
\* no content parts, or a first part without text.
NoUsableText(response) ==
    /\ response.outcome = "Body"
    /\ \/ "candidates" \notin DOMAIN response.result
       \/ Len(response.result.candidates) = 0
       \/ "content" \notin DOMAIN response.result.candidates[1]
       \/ "parts" \notin DOMAIN response.result.candidates[1].content
       \/ Len(response.result.candidates[1].content.parts) = 0
       \/ "text" \notin DOMAIN response.result.candidates[1].content.parts[1]

\* C19: when the endpoint answers successfully with a response that has no
\* usable text payload, generate_content fails with the malformed-response
\* kind and returns no string to the orchestrator.
C19_NoPayloadFails ==
    \A i \in 1..Len(model_calls) :
        (model_calls[i].posts = 1 /\ NoUsableText(model_calls[i].response)) =>
            model_calls[i].raised = "ValueError: Unexpected response format"

----------------------------------------------------------------------------
(* Properties of ContentModel validation, checked under SpecContent *)

\* The call validated the document the model wrote.
ValidatedDocument ==
    /\ pc \in {"Success", "Failed"}
    /\ json_loads(clean_json).ok

QuestionIds == {document.questions[i].id : i \in 1..Len(document.questions)}

\* Each of 1..N is the id of exactly one of the N questions.
IdsAreOneToN ==
    \A k \in 1..Len(document.questions) :
        Cardinality({i \in 1..Len(document.questions) :
                        document.questions[i].id = k}) = 1

\* C14: a ContentModel with N questions is accepted only if its question
\* ids, sorted, are exactly 1..N; an id list with a gap or a duplicate is
\* rejected in whatever order the questions are listed, and no ContentModel is
\* produced.
C14_SequentialIds ==
    ValidatedDocument =>
        /\ result.success => IdsAreOneToN
        /\ ~IdsAreOneToN =>
              (pc = "Failed" /\ ~result.success /\ "data" \notin DOMAIN result)

C14_Witness ==
    /\ pc = "Success"
    /\ Len(document.questions) = 4
    /\ document.questions[1].id = 4
    /\ result.data.questions = document.questions

\* The cognitive levels of the questions of a document or model.
CognitiveLevels(d) ==
    {d.questions[i].cognitive_level : i \in 1..Len(d.questions)}

\* C21: every accepted ContentModel has between 3 and 10 questions that do
\* not all share one cognitive level; a question list with more than two
\* questions that all carry the same Bloom level is rejected, so every
\* accepted activity has at least two distinct cognitive levels.
C21_BloomVariety ==
    ValidatedDocument =>
        /\ result.success =>
              /\ Len(result.data.questions) \in 3..10
              /\ Cardinality(CognitiveLevels(result.data)) >= 2
        /\ (/\ Len(document.questions) > 2
            /\ Cardinality(CognitiveLevels(document)) = 1) =>
              /\ ContentModel(document).raised # None
              /\ pc = "Failed"
              /\ ~result.success

\* An activity of ten questions at two cognitive levels was accepted.
C21_Witness ==
    /\ pc = "Success"
    /\ Len(result.data.questions) = 10
    /\ CognitiveLevels(result.data) = {"Remembering", "Understanding"}

\* C22: every ActivityResponse returned by generate_activity for a request
\* with level L carries content whose cefr_level equals L, so the niqqud
\* requirement of the requested level is the one that was enforced on the
\* returned text.
C22_ContentAtRequestedLevel ==
    pc = "Success" =>
        /\ result.data.cefr_level = request.level
        /\ (request.level \in {"A1", "A2"} => result.data.niqqud_chars >= 10)

\* C15: a ContentModel whose cefr_level is A1 or A2 and whose text_content
\* has fewer than 10 characters in the Hebrew vowel-point range is rejected
\* however valid the rest of the document is; generate_activity never
\* returns success for such content.
C15_NiqqudRequired ==
    (/\ pc \in {"Success", "Failed"}
     /\ document.cefr_level \in {"A1", "A2"}
     /\ document.niqqud_chars < 10) =>
        /\ ContentModel(document).raised # None
        /\ pc = "Failed"
        /\ ~result.success

C15_Witness ==
    /\ FailedIn("Validation")
    /\ result.raised = FailedValidation
    /\ document.cefr_level = "A2"
    /\ document.niqqud_chars = 9
    /\ ContentModel([document EXCEPT !.niqqud_chars = 10]).raised = None

\* The kind of defect of a candidate that holds the activity document d.
DefectOf(text, d) ==
    IF ~json_loads(text).ok THEN "MalformedJSON"
    ELSE IF FieldErrors(d) # {} THEN "SchemaViolation"
    ELSE IF ContentModel(d).raised # None THEN "DomainInvariantViolation"
    ELSE None

\* C12: the failure generate_activity reports distinguishes a candidate that
\* does not parse as JSON, one that parses but breaks field bounds, and one
\* that passes the schema but breaks a cross-field rule: the error raised
\* for a defect of one kind is raised for no defect of another kind.
C12_KindsDistinguished ==
    FailedIn("Validation") =>
        \A d \in ContentDocuments :
            LET other == DefectOf(<<"{", "<members:document>", "}">>, d)
            IN  (other # None /\ other # DefectOf(clean_json, document)) =>
                    ValidatedMembers(d, request, config).raised # result.raised

\* C18: round trip: for every JSON document from which a ContentModel is
\* constructed, serialising that ContentModel and parsing the result again
\* succeeds and yields a ContentModel equal to the first, field for field.
C18_RoundTrip ==
    reparsed # NoResult =>
        /\ reparsed.raised = None
        /\ reparsed.value = result.data

----------------------------------------------------------------------------
(* Properties of request validation, checked under SpecRequests *)

\* A body that names a level was received last.
ReceivedLevel == req_json # NoRequest /\ "level" \in DOMAIN req_json

\* C16: a request whose level is not in the allow-list A1, A2, B1 is rejected
\* when the GenerateActivityRequest is built, before any config resolution:
\* get_config is not called for it, whether or not the source holds a config
\* for that level.
C16_UnsupportedLevelRejected ==
    (ReceivedLevel /\ req_json.level \notin {"A1", "A2", "B1"}) =>
        /\ pc = "Rejected"
        /\ result.raised = "BAD_REQUEST"
        /\ request = NoRequest
        /\ stages = <<>>

C16_Witness ==
    /\ ReceivedLevel
    /\ req_json = [topic |-> "Soccer", level |-> "B2"]
    /\ load_config(source, "B2", "default") = TestDocument
    /\ pc = "Rejected"
    /\ stages = <<>>

\* The topic holds one of the injection markers, in some letter case.
HoldsMarker(topic) ==
    \E pattern \in dangerous_patterns :
        Contains(lower_text(TopicChars(topic)), pattern)

WellFormedTopic(topic) ==
    /\ Len(TopicChars(topic)) >= 2
    /\ Len(TopicChars(topic)) <= 100
    /\ ~HoldsMarker(topic)

\* C17: every accepted GenerateActivityRequest carries a topic that is 2 to
\* 100 characters long and holds none of the prompt-injection markers in any
\* letter case; a topic that violates either condition is rejected and
\* never reaches the prompt renderer.
C17_TopicWellFormed ==
    /\ request # NoRequest => WellFormedTopic(request.topic)
    /\ (req_json # NoRequest /\ "topic" \in DOMAIN req_json
           /\ ~WellFormedTopic(req_json.topic)) =>
          (pc = "Rejected" /\ request = NoRequest /\ system_prompt = <<>>)

----------------------------------------------------------------------------
(* Properties of concurrent get_config calls, checked under SpecThreads *)

\* The threads that called get_config for the pair.
Callers(level, variant) ==
    {t \in Threads : threads[t].level = level /\ threads[t].variant = variant}

\* C20: for every interleaving of two or more concurrent get_config calls for
\* the same key on a cold cache with an unchanged valid document, each call
\* returns a validated config equal to the document, each caller reads the
\* source at most once, and once all calls have finished the cache holds a
\* validated config for the key.
C20_ConcurrentFirstRequests ==
    \A level \in {"A1", "B1"} :
        LET callers == Callers(level, "default")
            doc == load_config(source, level, "default")
        IN  Cardinality(callers) >= 2 =>
                /\ \A t \in callers :
                      /\ threads[t].reads <= 1
                      /\ At(t, "done") =>
                            /\ threads[t].raised = None
                            /\ threads[t].value = doc
                            /\ PromptConfigAccepts(threads[t].value)
                /\ (\A t \in callers : At(t, "done")) =>
                      /\ cache_key(level, "default") \in DOMAIN cache
                      /\ cache[cache_key(level, "default")] = doc
                      /\ PromptConfigAccepts(cache[cache_key(level, "default")])

\* Two callers of one key both missed and loaded, and both have returned.
C20_Witness ==
    /\ Cardinality(Callers("A1", "default")) >= 2
    /\ \A t \in Callers("A1", "default") : At(t, "done")
    /\ Cardinality({t \in Callers("A1", "default") : threads[t].reads = 1}) >= 2

----------------------------------------------------------------------------
(* Properties of a call made while the configuration changes, checked      *)
(* under SpecReload                                                        *)

\* The prompt that the config held by the call renders to for its request.
RenderedFrom(cfg, req) ==
    render(cfg.system_prompt_template,
           [topic |-> req.topic, level |-> req.level], FALSE)

\* C23: within one generate_activity call the prompt sent to the model is
\* rendered from the same config whose generation parameters are passed to
\* the model and whose version is reported in the response metadata, also
\* when clear_cache runs or the backing document changes between the call's
\* own get_config and the get_config made inside render_system_prompt.
C23_OneConfigPerCall ==
    /\ system_prompt # <<>> => system_prompt = RenderedFrom(config, request)
    /\ \A i \in 1..Len(model_calls) :
          /\ model_calls[i].prompt = RenderedFrom(config, request)
          /\ model_calls[i].temperature = temperature_for(config)
          /\ model_calls[i].max_output_tokens = max_tokens_for(config)
    /\ pc = "Success" => result.metadata.version = config.version

----------------------------------------------------------------------------
(* Properties of get_config calls concurrent with clear_cache, checked     *)
(* under SpecClear                                                         *)

\* C24: a get_config call that runs concurrently with clear_cache on the
\* same PromptManager either returns a validated config or fails with the
\* not-found or invalid-config kind; no interleaving of the cache membership
\* test, the cache read and the clear makes it fail with any other error
\* (such as a missing-key error).
C24_ClearIsHarmless ==
    \A t \in Threads :
        At(t, "done") =>
            \/ threads[t].raised = None /\ PromptConfigAccepts(threads[t].value)
            \/ threads[t].raised \in
                  {"FileNotFoundError", "ValueError: Invalid prompt configuration"}

=============================================================================
